---------------------------- MODULE Spec2Model ----------------------------
(***************************************************************************)
(* A model of ae::TaskScheduler (src/AETK/AEGP/Util/TaskScheduler.hpp):   *)
(* the mutex-protected queue of closures, the two ScheduleTask overloads,  *)
(* ExecuteTask (the idle-hook pump) and ae::ScheduleOrExecute.             *)
(*                                                                         *)
(* Main is the host's main thread, the only caller of ExecuteTask; the     *)
(* Producers are the threads that submit closures.  A step is a stretch of *)
(* one thread's code that no other thread can observe in part: a critical  *)
(* section of queueMutex is one step up to the point where the thread      *)
(* leaves this file holding the mutex (the host call, the closure's body). *)
(***************************************************************************)
EXTENDS Naturals, Sequences, FiniteSets

VARIABLES
    tkInternal,   \* whether the build defines TK_INTERNAL (#ifdef, line 168)
    tasksQueue,   \* TaskScheduler::tasksQueue: ids of the queued closures
    queueMutex,   \* TaskScheduler::queueMutex: owning thread, or NoThread
    pc,           \* pc[th]: where thread th is
    cur,          \* cur[th]: the closure th is passing to ScheduleTask (0: none)
    run,          \* run[th]: the closure whose body th is inside (0: none)
    tasks,        \* tasks[id]: the closure created with identity id
    future,       \* future[id]: the shared state of the closure's future
    retrieved,    \* retrieved[id]: what future.get() gave the producer
    idleCalls,    \* calls of AEGP_CauseIdleRoutinesToBeCalled made so far
    escaped,      \* escaped[th]: the exception that left th's last call
    dequeued,     \* ids in the order ExecuteTask popped them
    pumpQ,        \* tasksQueue as the current ExecuteTask found it
    pumpRan,      \* ids whose body the current ExecuteTask invoked
    pumpEnd       \* tasksQueue as the ExecuteTask that just returned left it

vars == <<tkInternal, tasksQueue, queueMutex, pc, cur, run, tasks, future,
          retrieved, idleCalls, escaped, dequeued, pumpQ, pumpRan, pumpEnd>>

(***************************************************************************)
(* Bounds of the model.                                                    *)
(***************************************************************************)
MaxTasks == 2     \* closures created in a run of Spec
MaxPlain == 4     \* closures created in a run of SpecPlain
MaxLive == 3      \* closures created in a run of SpecLive

Main == "main"
Producers == {"p1", "p2"}
Threads == {Main} \cup Producers
NoThread == "none"

Values == {41, 42}
Errors == {"x"}
NoError == ""
SystemError == "system_error"

(***************************************************************************)
(* How a closure's body ends: a returned value, a thrown exception, or     *)
(* (for a future) nothing yet.                                             *)
(***************************************************************************)
Pending == [tag |-> "pending", val |-> 0, err |-> NoError]
NoFuture == [tag |-> "nofuture", val |-> 0, err |-> NoError]
Returned(v) == [tag |-> "value", val |-> v, err |-> NoError]
Threw(e) == [tag |-> "exception", val |-> 0, err |-> e]

(***************************************************************************)
(* The closures a caller can hand in.  op "ret" returns val, op "raise"    *)
(* throws err, op "sched" calls ScheduleTask(child, callIdle) from inside  *)
(* the body and then returns val.                                          *)
(***************************************************************************)
Rets(vals) == [op : {"ret"}, val : vals, err : {NoError}]
Raises == [op : {"raise"}, val : {0}, err : Errors]
Scheds == [op : {"sched"}, val : {0}, err : {NoError}]

\* What the callers of the model pass: to the void overload, to the
\* overload with a result, to
\* ScheduleOrExecute; and to the void overload in SpecPlain.
VoidMenu == [body : Rets({0}) \cup Raises \cup Scheds, callIdle : BOOLEAN]
ResultMenu == [body : Rets(Values) \cup Raises \cup Scheds, callIdle : BOOLEAN]
PackagedMenu == [body : Rets(Values) \cup Raises, callIdle : {TRUE}]
PlainMenu ==
    [body : Rets({0}), callIdle : {FALSE}] \cup [body : Raises, callIdle : {TRUE}]
\* and to the void overload in SpecLive.
LiveMenu == [body : Rets({0}) \cup Scheds, callIdle : {FALSE}]

NewTask(th, kind, body, callIdle, child) ==
    [owner |-> th, kind |-> kind, body |-> body, callIdle |-> callIdle,
     child |-> child]

\* The closure a "sched" body hands to ScheduleTask: a void closure that returns.
ChildTask(th, callIdle) ==
    NewTask(th, "void", [op |-> "ret", val |-> 0, err |-> NoError], callIdle, 0)

\* Ids a new closure with this body needs: itself and the closure it schedules.
Needs(body) == IF body.op = "sched" THEN 2 ELSE 1

Room(body, limit) == Len(tasks) + Needs(body) <= limit

\* tasks after the creation of a closure (and of the one its body schedules,
\* which the thread that runs the body will own).
Created(th, runner, kind, body, callIdle) ==
    IF body.op = "sched"
    THEN tasks \o <<NewTask(th, kind, body, callIdle, Len(tasks) + 2),
                    ChildTask(runner, callIdle)>>
    ELSE Append(tasks, NewTask(th, kind, body, callIdle, 0))

\* A per-closure table after that creation, f the entry of the new closure.
Extended(table, body, f) ==
    IF body.op = "sched" THEN table \o <<f, NoFuture>> ELSE Append(table, f)

Init ==
    /\ tkInternal \in BOOLEAN
    /\ tasksQueue = <<>>
    /\ queueMutex = NoThread
    /\ pc = [th \in Threads |-> "idle"]
    /\ cur = [th \in Threads |-> 0]
    /\ run = [th \in Threads |-> 0]
    /\ tasks = <<>>
    /\ future = <<>>
    /\ retrieved = <<>>
    /\ idleCalls = 0
    /\ escaped = [th \in Threads |-> NoError]
    /\ dequeued = <<>>
    /\ pumpQ = <<>>
    /\ pumpRan = <<>>
    /\ pumpEnd = <<>>

(***************************************************************************)
(* The std::queue operations ExecuteTask and ScheduleTask use.             *)
(***************************************************************************)
\* (a push at the wrong end)
Push_front(q, id) == <<id>> \o q
Push(q, id) == Append(q, id)
\* (back() for front())
Front_back(q) == q[Len(q)]
Front(q) == Head(q)
\* (the pop() forgotten)
Pop_none(q) == q
Pop(q) == Tail(q)

(***************************************************************************)
(* What running a closure does with the way its body ended: the value put  *)
(* in the closure's future and the exception that leaves the closure.      *)
(***************************************************************************)
\* A plain std::function<void()>: nothing is stored, an exception leaves it.
PlainCall(out) == [stored |-> NoFuture, thrown |-> out.err]

\* The lambda of ScheduleTask<ReturnType>: set_value or, in catch (...),
\* set_exception; nothing leaves it.
\* (task() called, its value never given to the promise)
taskWrapper_novalue(out) ==
    [stored |-> IF out.tag = "value" THEN Pending ELSE out, thrown |-> NoError]
\* (no try/catch around task())
taskWrapper_nocatch(out) ==
    IF out.tag = "exception" THEN [stored |-> Pending, thrown |-> out.err]
    ELSE [stored |-> out, thrown |-> NoError]
taskWrapper(out) == [stored |-> out, thrown |-> NoError]

\* std::packaged_task::operator() as ScheduleOrExecute invokes it: the value
\* or the exception of the function goes to the shared state of its future;
\* the try/catch around the call has nothing left to catch.
\* (the function called bare inside the try/catch, the exception dropped)
PackagedCall_discard(out) ==
    [stored |-> IF out.tag = "exception" THEN Pending ELSE out,
     thrown |-> NoError]
PackagedCall(out) == [stored |-> out, thrown |-> NoError]

Invoke(kind, out) ==
    CASE kind = "void" -> PlainCall(out)
      [] kind = "result" -> taskWrapper(out)
      [] kind = "packaged" -> PackagedCall(out)

\* Thread th's closure ends its body with out: the future gets what the
\* closure stores, and what the closure throws is on its way out of the call
\* that ran it.  On the main thread that call is ExecuteTask, which still
\* has to leave; on a producer it is ScheduleOrExecute, which returns the
\* future.  mtx is queueMutex as the body leaves it.
Finish(th, out, mtx) ==
    /\ future' = [future EXCEPT ![run[th]] =
                     IF tasks[run[th]].kind = "void" THEN @
                     ELSE Invoke(tasks[run[th]].kind, out).stored]
    /\ escaped' = [escaped EXCEPT ![th] = Invoke(tasks[run[th]].kind, out).thrown]
    /\ run' = [run EXCEPT ![th] = 0]
    /\ queueMutex' = mtx
    /\ pc' = [pc EXCEPT ![th] = IF th = Main THEN "exit" ELSE "idle"]


\* ScheduleTask returns to its caller: the producer's code, or the body of
\* the closure th is running, which then returns its value.
ReturnToCaller(th, mtx) ==
    IF run[th] = 0
    THEN /\ queueMutex' = mtx
         /\ pc' = [pc EXCEPT ![th] = "idle"]
         /\ UNCHANGED <<run, future, escaped>>
    ELSE Finish(th, Returned(tasks[run[th]].body.val), mtx)

(***************************************************************************)
(* void ScheduleTask(std::function<void()> task, bool callIdle)            *)
(***************************************************************************)
\* A producer calls the void overload with a new closure out of menu.
ScheduleTask_call(th, menu, limit) ==
    /\ th \in Producers
    /\ pc[th] = "idle"
    /\ \E arg \in menu :
          /\ Room(arg.body, limit)
          /\ tasks' = Created(th, Main, "void", arg.body, arg.callIdle)
          /\ future' = Extended(future, arg.body, NoFuture)
          /\ retrieved' = Extended(retrieved, arg.body, NoFuture)
    /\ cur' = [cur EXCEPT ![th] = Len(tasks) + 1]
    /\ pc' = [pc EXCEPT ![th] = "s_lock"]
    /\ UNCHANGED <<tkInternal, tasksQueue, queueMutex, run, idleCalls, escaped,
                   dequeued, pumpQ, pumpRan, pumpEnd>>

ScheduleTask_enter(th) == ScheduleTask_call(th, VoidMenu, MaxTasks)

ScheduleTask_plain(th) == ScheduleTask_call(th, PlainMenu, MaxPlain)

ScheduleTask_live(th) == ScheduleTask_call(th, LiveMenu, MaxLive)

\* if (callIdle), line 76: the argument stored with the closure decides
\* whether this call asks the host for idle routines.
CallsIdle_always(id) == TRUE
CallsIdle_never(id) == FALSE
CallsIdle(id) == tasks[id].callIdle

\* std::lock_guard<std::mutex> lock(queueMutex) with the mutex free, and
\* tasksQueue.push(std::move(task)).  With callIdle the thread then enters
\* AEGP_CauseIdleRoutinesToBeCalled, the lock_guard alive; without it the
\* lock_guard unlocks and the call returns.
\* (the closure called by the scheduling thread instead of pushed)
ScheduleTask_push_inline(th) ==
    /\ pc[th] = "s_lock"
    /\ queueMutex = NoThread
    /\ run' = [run EXCEPT ![th] = cur[th]]
    /\ cur' = [cur EXCEPT ![th] = 0]
    /\ pc' = [pc EXCEPT ![th] = "run"]
    /\ UNCHANGED <<tkInternal, tasksQueue, queueMutex, tasks, future,
                   retrieved, idleCalls, escaped, dequeued, pumpQ, pumpRan,
                   pumpEnd>>

ScheduleTask_push(th) ==
    /\ pc[th] = "s_lock"
    /\ queueMutex = NoThread
    /\ tasksQueue' = Push(tasksQueue, cur[th])
    /\ IF CallsIdle(cur[th])
       THEN /\ queueMutex' = th
            /\ idleCalls' = idleCalls + 1
            /\ pc' = [pc EXCEPT ![th] = "s_idle"]
            /\ UNCHANGED <<cur, run, future, escaped>>
       ELSE /\ cur' = [cur EXCEPT ![th] = 0]
            /\ ReturnToCaller(th, NoThread)
            /\ UNCHANGED idleCalls
    /\ UNCHANGED <<tkInternal, tasks, retrieved, dequeued, pumpQ, pumpRan,
                   pumpEnd>>

\* The same lock statement reached by the thread that owns the mutex:
\* undefined behaviour of std::mutex::lock.  A build either never returns
\* from it (pthread mutex, SRWLOCK) or throws std::system_error (checked
\* implementations); the exception leaves the body that called ScheduleTask.
RelockOutcomes == {"hang", "throw"}

ScheduleTask_relock(th) ==
    /\ pc[th] = "s_lock"
    /\ queueMutex = th
    /\ \E o \in RelockOutcomes :
          \/ /\ o = "hang"
             /\ pc' = [pc EXCEPT ![th] = "hung"]
             /\ UNCHANGED <<queueMutex, cur, run, future, escaped>>
          \/ /\ o = "throw"
             /\ cur' = [cur EXCEPT ![th] = 0]
             /\ Finish(th, Threw(SystemError), queueMutex)
    /\ UNCHANGED <<tkInternal, tasksQueue, tasks, retrieved, idleCalls,
                   dequeued, pumpQ, pumpRan, pumpEnd>>

\* AEGP_CauseIdleRoutinesToBeCalled returns; the closing brace: the
\* lock_guard unlocks and the call returns.
ScheduleTask_return(th) ==
    /\ pc[th] = "s_idle"
    /\ cur' = [cur EXCEPT ![th] = 0]
    /\ ReturnToCaller(th, NoThread)
    /\ UNCHANGED <<tkInternal, tasksQueue, tasks, retrieved, idleCalls,
                   dequeued, pumpQ, pumpRan, pumpEnd>>

(***************************************************************************)
(* std::future<ReturnType> ScheduleTask(std::function<ReturnType()>, bool) *)
(***************************************************************************)
\* Makes the promise and its future, wraps the function in taskWrapper and
\* calls the void overload with the wrapper.
\* (the function called and the promise set by the scheduling thread)
ScheduleTaskResult_eager(th) ==
    /\ th \in Producers
    /\ pc[th] = "idle"
    /\ \E arg \in ResultMenu :
          /\ Room(arg.body, MaxTasks)
          /\ tasks' = Created(th, Main, "result", arg.body, arg.callIdle)
          /\ future' = Extended(future, arg.body,
                                IF arg.body.op = "ret"
                                THEN Returned(arg.body.val)
                                ELSE Threw(arg.body.err))
          /\ retrieved' = Extended(retrieved, arg.body, Pending)
    /\ cur' = [cur EXCEPT ![th] = Len(tasks) + 1]
    /\ pc' = [pc EXCEPT ![th] = "s_lock"]
    /\ UNCHANGED <<tkInternal, tasksQueue, queueMutex, run, idleCalls, escaped,
                   dequeued, pumpQ, pumpRan, pumpEnd>>
ScheduleTaskResult_enter(th) ==
    /\ th \in Producers
    /\ pc[th] = "idle"
    /\ \E arg \in ResultMenu :
          /\ Room(arg.body, MaxTasks)
          /\ tasks' = Created(th, Main, "result", arg.body, arg.callIdle)
          /\ future' = Extended(future, arg.body, Pending)
          /\ retrieved' = Extended(retrieved, arg.body, Pending)
    /\ cur' = [cur EXCEPT ![th] = Len(tasks) + 1]
    /\ pc' = [pc EXCEPT ![th] = "s_lock"]
    /\ UNCHANGED <<tkInternal, tasksQueue, queueMutex, run, idleCalls, escaped,
                   dequeued, pumpQ, pumpRan, pumpEnd>>

\* std::future::get by the thread that was given the future, once it is ready.
FutureGet(th) ==
    /\ th \in Producers
    /\ pc[th] = "idle"
    /\ \E id \in 1..Len(tasks) :
          /\ tasks[id].owner = th
          /\ future[id].tag \in {"value", "exception"}
          /\ retrieved[id] = Pending
          /\ retrieved' = [retrieved EXCEPT ![id] = future[id]]
    /\ UNCHANGED <<tkInternal, tasksQueue, queueMutex, pc, cur, run, tasks,
                   future, idleCalls, escaped, dequeued, pumpQ, pumpRan,
                   pumpEnd>>

(***************************************************************************)
(* void ExecuteTask(), called by the host's idle hook on the main thread.  *)
(***************************************************************************)
\* The lock_guard locks, tasksQueue.empty() holds, the lock_guard unlocks.
ExecuteTask_empty ==
    /\ pc[Main] = "idle"
    /\ queueMutex = NoThread
    /\ tasksQueue = <<>>
    /\ pc' = [pc EXCEPT ![Main] = "returned"]
    /\ escaped' = [escaped EXCEPT ![Main] = NoError]
    /\ pumpQ' = tasksQueue
    /\ pumpRan' = <<>>
    /\ pumpEnd' = tasksQueue
    /\ UNCHANGED <<tkInternal, tasksQueue, queueMutex, cur, run, tasks, future,
                   retrieved, idleCalls, dequeued>>

\* The lock_guard locks; auto task = tasksQueue.front(); tasksQueue.pop();
\* and the call task() begins, the lock_guard alive.
ExecuteTask_pop ==
    /\ pc[Main] = "idle"
    /\ queueMutex = NoThread
    /\ tasksQueue # <<>>
    /\ queueMutex' = Main
    /\ run' = [run EXCEPT ![Main] = Front(tasksQueue)]
    /\ tasksQueue' = Pop(tasksQueue)
    /\ dequeued' = Append(dequeued, Front(tasksQueue))
    /\ escaped' = [escaped EXCEPT ![Main] = NoError]
    /\ pumpQ' = tasksQueue
    /\ pumpRan' = <<Front(tasksQueue)>>
    /\ pc' = [pc EXCEPT ![Main] = "run"]
    /\ UNCHANGED <<tkInternal, cur, tasks, future, retrieved, idleCalls,
                   pumpEnd>>

\* task() is over, by return or by an exception that unwinds ExecuteTask:
\* either way the lock_guard's destructor unlocks and the call ends.
\* (lock() and unlock() written by hand: the unlock skipped by an exception)
ExecuteTask_return_manual ==
    /\ pc[Main] = "exit"
    /\ queueMutex' = IF escaped[Main] = NoError THEN NoThread ELSE queueMutex
    /\ pumpEnd' = tasksQueue
    /\ pc' = [pc EXCEPT ![Main] = "returned"]
    /\ UNCHANGED <<tkInternal, tasksQueue, cur, run, tasks, future, retrieved,
                   idleCalls, escaped, dequeued, pumpQ, pumpRan>>
ExecuteTask_return ==
    /\ pc[Main] = "exit"
    /\ queueMutex' = NoThread
    /\ pumpEnd' = tasksQueue
    /\ pc' = [pc EXCEPT ![Main] = "returned"]
    /\ UNCHANGED <<tkInternal, tasksQueue, cur, run, tasks, future, retrieved,
                   idleCalls, escaped, dequeued, pumpQ, pumpRan>>

\* The idle hook that called ExecuteTask is over; the host goes on.
IdleHook_return ==
    /\ pc[Main] = "returned"
    /\ pc' = [pc EXCEPT ![Main] = "idle"]
    /\ escaped' = [escaped EXCEPT ![Main] = NoError]
    /\ pumpQ' = <<>>
    /\ pumpRan' = <<>>
    /\ pumpEnd' = <<>>
    /\ UNCHANGED <<tkInternal, tasksQueue, queueMutex, cur, run, tasks, future,
                   retrieved, idleCalls, dequeued>>

(***************************************************************************)
(* The body of the closure thread th is running.                           *)
(***************************************************************************)
Body_ret(th) ==
    /\ pc[th] = "run"
    /\ tasks[run[th]].body.op = "ret"
    /\ Finish(th, Returned(tasks[run[th]].body.val), queueMutex)
    /\ UNCHANGED <<tkInternal, tasksQueue, cur, tasks, retrieved, idleCalls,
                   dequeued, pumpQ, pumpRan, pumpEnd>>

Body_raise(th) ==
    /\ pc[th] = "run"
    /\ tasks[run[th]].body.op = "raise"
    /\ Finish(th, Threw(tasks[run[th]].body.err), queueMutex)
    /\ UNCHANGED <<tkInternal, tasksQueue, cur, tasks, retrieved, idleCalls,
                   dequeued, pumpQ, pumpRan, pumpEnd>>

\* The body calls TaskScheduler::GetInstance().ScheduleTask(child, callIdle).
Body_sched(th) ==
    /\ pc[th] = "run"
    /\ tasks[run[th]].body.op = "sched"
    /\ cur' = [cur EXCEPT ![th] = tasks[run[th]].child]
    /\ pc' = [pc EXCEPT ![th] = "s_lock"]
    /\ UNCHANGED <<tkInternal, tasksQueue, queueMutex, run, tasks, future,
                   retrieved, idleCalls, escaped, dequeued, pumpQ, pumpRan,
                   pumpEnd>>

(***************************************************************************)
(* template <typename Func> auto ae::ScheduleOrExecute(Func &&func)        *)
(***************************************************************************)
\* #ifdef TK_INTERNAL, line 168: the build decides which branch exists.
Deferred_always == TRUE
Deferred == tkInternal

\* make_shared<packaged_task>, get_future, and then: with TK_INTERNAL the
\* call ScheduleTask(lambda) with callIdle defaulted to true; without it
\* the call (*taskPtr)() on the calling thread.
ScheduleOrExecute_enter(th) ==
    /\ th \in Producers
    /\ pc[th] = "idle"
    /\ \E arg \in PackagedMenu :
          /\ Room(arg.body, MaxTasks)
          /\ tasks' = Created(th, IF Deferred THEN Main ELSE th, "packaged",
                              arg.body, arg.callIdle)
          /\ future' = Extended(future, arg.body, Pending)
          /\ retrieved' = Extended(retrieved, arg.body, Pending)
    /\ IF Deferred
       THEN /\ cur' = [cur EXCEPT ![th] = Len(tasks) + 1]
            /\ pc' = [pc EXCEPT ![th] = "s_lock"]
            /\ UNCHANGED <<run, escaped>>
       ELSE /\ run' = [run EXCEPT ![th] = Len(tasks) + 1]
            /\ pc' = [pc EXCEPT ![th] = "run"]
            /\ escaped' = [escaped EXCEPT ![th] = NoError]
            /\ UNCHANGED cur
    /\ UNCHANGED <<tkInternal, tasksQueue, queueMutex, idleCalls, dequeued,
                   pumpQ, pumpRan, pumpEnd>>

Next ==
    \/ ExecuteTask_empty
    \/ ExecuteTask_pop
    \/ ExecuteTask_return
    \/ IdleHook_return
    \/ \E th \in Threads :
          \/ ScheduleTask_enter(th)
          \/ ScheduleTaskResult_enter(th)
          \/ ScheduleOrExecute_enter(th)
          \/ FutureGet(th)
          \/ ScheduleTask_push(th)
          \/ ScheduleTask_relock(th)
          \/ ScheduleTask_return(th)
          \/ Body_ret(th)
          \/ Body_raise(th)
          \/ Body_sched(th)

Spec == Init /\ [][Next]_vars

(***************************************************************************)
(* The scheduler under producers that only call the void overload, with    *)
(* closures that return or throw: more closures, fewer kinds.              *)
(***************************************************************************)
InitPlain == Init /\ tkInternal

NextPlain ==
    \/ ExecuteTask_empty
    \/ ExecuteTask_pop
    \/ ExecuteTask_return
    \/ IdleHook_return
    \/ \E th \in Threads :
          \/ ScheduleTask_plain(th)
          \/ ScheduleTask_push(th)
          \/ ScheduleTask_return(th)
          \/ Body_ret(th)
          \/ Body_raise(th)

SpecPlain == InitPlain /\ [][NextPlain]_vars

(***************************************************************************)
(* The two ScheduleTask overloads and ExecuteTask, with every closure of   *)
(* VoidMenu and ResultMenu and the retrieval of the futures.               *)
(***************************************************************************)
NextResult ==
    \/ ExecuteTask_empty
    \/ ExecuteTask_pop
    \/ ExecuteTask_return
    \/ IdleHook_return
    \/ \E th \in Threads :
          \/ ScheduleTask_enter(th)
          \/ ScheduleTaskResult_enter(th)
          \/ ScheduleTask_push(th)
          \/ ScheduleTask_relock(th)
          \/ ScheduleTask_return(th)
          \/ FutureGet(th)
          \/ Body_ret(th)
          \/ Body_raise(th)
          \/ Body_sched(th)

SpecResult == InitPlain /\ [][NextResult]_vars

(***************************************************************************)
(* ae::ScheduleOrExecute in both builds, next to the void overload of      *)
(* ScheduleTask and ExecuteTask.                                           *)
(***************************************************************************)
NextOrExecute ==
    \/ ExecuteTask_empty
    \/ ExecuteTask_pop
    \/ ExecuteTask_return
    \/ IdleHook_return
    \/ \E th \in Threads :
          \/ ScheduleTask_enter(th)
          \/ ScheduleOrExecute_enter(th)
          \/ ScheduleTask_push(th)
          \/ ScheduleTask_relock(th)
          \/ ScheduleTask_return(th)
          \/ FutureGet(th)
          \/ Body_ret(th)
          \/ Body_raise(th)
          \/ Body_sched(th)

SpecOrExecute == Init /\ [][NextOrExecute]_vars

(***************************************************************************)
(* The scheduler with a host that keeps calling ExecuteTask: closures that *)
(* return, closures that call ScheduleTask from their body, and closures   *)
(* with a future.  Every thread that can take its next step takes it       *)
(* (weak fairness), and a thread waiting for queueMutex gets it if the     *)
(* mutex is free again and again (strong fairness); no thread is obliged   *)
(* to start a new call of ScheduleTask.                                    *)
(***************************************************************************)
NextLive ==
    \/ ExecuteTask_empty
    \/ ExecuteTask_pop
    \/ ExecuteTask_return
    \/ IdleHook_return
    \/ \E th \in Threads :
          \/ ScheduleTask_live(th)
          \/ ScheduleTaskResult_enter(th)
          \/ ScheduleTask_push(th)
          \/ ScheduleTask_relock(th)
          \/ ScheduleTask_return(th)
          \/ Body_ret(th)
          \/ Body_raise(th)
          \/ Body_sched(th)

Fairness ==
    /\ SF_vars(ExecuteTask_empty)
    /\ SF_vars(ExecuteTask_pop)
    /\ WF_vars(ExecuteTask_return)
    /\ WF_vars(IdleHook_return)
    /\ \A th \in Threads :
          /\ SF_vars(ScheduleTask_push(th))
          /\ WF_vars(ScheduleTask_relock(th))
          /\ WF_vars(ScheduleTask_return(th))
          /\ WF_vars(Body_ret(th))
          /\ WF_vars(Body_raise(th))
          /\ WF_vars(Body_sched(th))

SpecLive == InitPlain /\ [][NextLive]_vars /\ Fairness


(***************************************************************************)
(* Vocabulary of the properties.                                           *)
(***************************************************************************)
Range(q) == {q[i] : i \in 1..Len(q)}
Ids == 1..Len(tasks)
Count(q, id) == Cardinality({i \in 1..Len(q) : q[i] = id})
Pos(q, id) == CHOOSE i \in 1..Len(q) : q[i] = id

\* The closure was handed to the queue: its ScheduleTask call got past push.
Pushed(id) == id \in Range(tasksQueue) \cup Range(dequeued)
\* ExecuteTask popped the closure and its body is over.
Executed(id) == id \in Range(dequeued) /\ run[Main] # id
\* The closure goes through the queue (not run in place by ScheduleOrExecute).
Queued(id) == tasks[id].kind # "packaged" \/ tkInternal
\* The thread's call that ran closure id is over.
Over(id) == \A th \in Threads : run[th] # id

(***************************************************************************)
(* C1. Re-entrant enqueue is safe: when a closure run by ExecuteTask calls *)
(* ScheduleTask, the call completes without deadlock, the new closure is   *)
(* appended to the queue, and it is not run within the same ExecuteTask.   *)
(* The code holds queueMutex across task(), so the inner lock is a relock. *)
(***************************************************************************)
C1_ReentrantEnqueueSafe ==
    /\ pc[Main] # "hung"
    /\ \A id \in Ids :
          (tasks[id].body.op = "sched" /\ Executed(id))
             => /\ Pushed(tasks[id].child)
                /\ ~(id \in Range(pumpRan) /\ tasks[id].child \in Range(pumpRan))

(***************************************************************************)
(* C2. ExecuteTask releases queueMutex before it runs the closure it       *)
(* removed: whenever a closure body is executing on the main thread, the   *)
(* main thread does not hold queueMutex.                                   *)
(***************************************************************************)
C2_LockReleasedBeforeRun == run[Main] # 0 => queueMutex # Main

(***************************************************************************)
(* C3. An exception thrown by a fire-and-forget closure (void overload)    *)
(* never leaves ExecuteTask: the call that ran it returns normally.        *)
(***************************************************************************)
C3_FireAndForgetContained ==
    \A id \in Range(pumpRan) :
       (pc[Main] = "returned" /\ tasks[id].kind = "void"
          /\ tasks[id].body.op = "raise")
          => escaped[Main] = NoError

(***************************************************************************)
(* C4. ScheduleTask never blocks its caller: no producer is ever waiting   *)
(* for queueMutex while the main thread is inside a closure body.          *)
(***************************************************************************)
C4_ProducerNeverWaitsForBody ==
    \A p \in Producers :
       ~(pc[p] = "s_lock" /\ run[Main] # 0 /\ queueMutex = Main)


(***************************************************************************)
(* C5. FIFO per producer: if one thread enqueues A and then B with the     *)
(* void overload, A's body starts and is over before B's body starts,      *)
(* however the enqueues of other producers interleave.                     *)
(***************************************************************************)
\* a and b went to the queue from one producer thread, a first.
SameProducer(a, b) ==
    /\ a < b /\ Queued(a) /\ Queued(b)
    /\ tasks[a].owner = tasks[b].owner /\ tasks[a].owner \in Producers

C5_FifoPerProducer ==
    \A a, b \in Ids :
       (SameProducer(a, b) /\ b \in Range(dequeued))
          => /\ a \in Range(dequeued)
             /\ Pos(dequeued, a) < Pos(dequeued, b)
             /\ Executed(a)

\* A and B of one producer both ran, a closure of the other producer between.
C5_Witness ==
    \E a, b, c \in Ids :
       /\ SameProducer(a, b) /\ tasks[c].owner \in Producers \ {tasks[a].owner}
       /\ Executed(a) /\ Executed(b) /\ Executed(c)
       /\ Pos(dequeued, a) < Pos(dequeued, c)
       /\ Pos(dequeued, c) < Pos(dequeued, b)

(***************************************************************************)
(* C6. At most one closure per ExecuteTask: a call that finds N >= 1       *)
(* closures queued removes and runs exactly the head and leaves the other  *)
(* N-1 queued in their order; a call that finds the queue empty runs       *)
(* nothing and leaves it empty.                                            *)
(***************************************************************************)
C6_OneTaskPerPump ==
    pc[Main] = "returned"
       => IF pumpQ = <<>>
          THEN pumpRan = <<>> /\ pumpEnd = <<>>
          ELSE pumpRan = <<Head(pumpQ)>> /\ pumpEnd = Tail(pumpQ)

\* An ExecuteTask that found three closures has returned.
C6_Witness ==
    /\ pc[Main] = "returned"
    /\ Len(pumpQ) = 3 /\ Len(pumpEnd) = 2 /\ Len(pumpRan) = 1

(***************************************************************************)
(* C7. Concurrent producers: of the closures the producers enqueue, each   *)
(* is dequeued exactly once (none lost, none twice), and each producer's   *)
(* closures are dequeued in the order it submitted them; so once the       *)
(* queue is drained, N producers of M closures each gave N*M dequeues.     *)
(***************************************************************************)
\* The ScheduleTask call with closure id is past its push.
Handed(id) ==
    ~(cur[tasks[id].owner] = id /\ pc[tasks[id].owner] = "s_lock")

C7_ConcurrentProducers ==
    /\ \A id \in Ids :
          Count(tasksQueue, id) + Count(dequeued, id)
             = IF Handed(id) THEN 1 ELSE 0
    /\ \A a, b \in Ids :
          (SameProducer(a, b) /\ a \in Range(dequeued) /\ b \in Range(dequeued))
             => Pos(dequeued, a) < Pos(dequeued, b)
    /\ tasksQueue = <<>>
          => Len(dequeued) = Cardinality({id \in Ids : Handed(id)})

\* Two producers enqueued two closures each, interleaved; all four were run.
C7_Witness ==
    /\ Len(tasks) = 4 /\ Len(dequeued) = 4 /\ tasksQueue = <<>>
    /\ \A id \in Ids : Executed(id)
    /\ \A p \in Producers : Cardinality({id \in Ids : tasks[id].owner = p}) = 2
    /\ tasks[dequeued[1]].owner # tasks[dequeued[2]].owner
    /\ tasks[dequeued[2]].owner # tasks[dequeued[3]].owner

(***************************************************************************)
(* C8. Result round-trip: for a closure submitted with the overload with a *)
(* result whose body returns v, after the ExecuteTask that runs it the     *)
(* future is ready and retrieval yields exactly v.                         *)
(***************************************************************************)
C8_ResultRoundTrip ==
    \A id \in Ids :
       (tasks[id].kind = "result" /\ tasks[id].body.op = "ret" /\ Executed(id))
          => /\ future[id] = Returned(tasks[id].body.val)
             /\ retrieved[id] \in {Pending, Returned(tasks[id].body.val)}

\* The producer of a closure returning 42 has retrieved 42.
C8_Witness ==
    \E id \in Ids :
       /\ tasks[id].kind = "result" /\ tasks[id].body.op = "ret"
       /\ tasks[id].body.val = 42
       /\ retrieved[id] = Returned(42)

(***************************************************************************)
(* C9. Failure round-trip: for a closure with a result whose body throws   *)
(* e, the ExecuteTask that runs it returns normally, the future becomes    *)
(* ready holding e, and the producer meets e only in the retrieval.        *)
(***************************************************************************)
C9_FailureRoundTrip ==
    \A id \in Ids :
       (tasks[id].kind = "result" /\ tasks[id].body.op = "raise")
          => /\ Executed(id)
                => /\ future[id] = Threw(tasks[id].body.err)
                   /\ retrieved[id] \in {Pending, Threw(tasks[id].body.err)}
             /\ (pc[Main] = "returned" /\ id \in Range(pumpRan))
                => escaped[Main] = NoError
             /\ escaped[tasks[id].owner] = NoError

\* The ExecuteTask that ran a throwing closure has returned and the producer
\* got the exception from the future.
C9_Witness ==
    \E id \in Ids :
       /\ tasks[id].kind = "result" /\ tasks[id].body.op = "raise"
       /\ Executed(id)
       /\ retrieved[id] = Threw(tasks[id].body.err)

(***************************************************************************)
(* C10. Fallback-mode errors.  As claimed: when ScheduleOrExecute runs the *)
(* function in place (no TK_INTERNAL) and it throws, the error is neither  *)
(* propagated to the caller nor delivered through the returned future.     *)
(***************************************************************************)
InPlace(id) == ~tkInternal /\ tasks[id].kind = "packaged" /\ Over(id)

C10_FallbackErrorDiscarded ==
    \A id \in Ids :
       (InPlace(id) /\ tasks[id].body.op = "raise")
          => /\ escaped[tasks[id].owner] = NoError
             /\ future[id].tag # "exception"
             /\ retrieved[id].tag # "exception"

(***************************************************************************)
(* C10, amended.  The error is not propagated to the caller, and it is     *)
(* delivered: the std::packaged_task stores it in the shared state, so the *)
(* future is ready when ScheduleOrExecute returns and retrieval raises it. *)
(***************************************************************************)
C10_FallbackErrorDelivered ==
    \A id \in Ids :
       (InPlace(id) /\ tasks[id].body.op = "raise")
          => /\ escaped[tasks[id].owner] = NoError
             /\ future[id] = Threw(tasks[id].body.err)
             /\ retrieved[id] \in {Pending, Threw(tasks[id].body.err)}

\* In a build without TK_INTERNAL the caller got the exception from the future.
C10_Witness ==
    \E id \in Ids :
       /\ InPlace(id) /\ tasks[id].body.op = "raise"
       /\ retrieved[id] = Threw(tasks[id].body.err)

\* ScheduleOrExecute of a build without TK_INTERNAL made closure id.
Fallback(id) == ~tkInternal /\ tasks[id].kind = "packaged"

(***************************************************************************)
(* C11. Without TK_INTERNAL, ScheduleOrExecute runs the function to        *)
(* completion on the calling thread before it returns: the closure is      *)
(* never handed to ScheduleTask nor found in the queue, it runs on no      *)
(* other thread, the caller is inside the call while it runs and the       *)
(* future is set when the call is over; and the steps of that call leave   *)
(* tasksQueue, queueMutex and the count of host idle requests unchanged.   *)
(***************************************************************************)
C11_FallbackBypassesQueue ==
    /\ [](\A id \in Ids :
            Fallback(id) =>
               /\ ~Pushed(id)
               /\ \A th \in Threads :
                     /\ cur[th] # id
                     /\ run[th] = id => (th = tasks[id].owner /\ pc[th] = "run")
               /\ Over(id) => future[id] # Pending)
    /\ [][\A p \in Producers :
            (~tkInternal /\ run'[p] # run[p])
               => /\ tasksQueue' = tasksQueue
                  /\ queueMutex' = queueMutex
                  /\ idleCalls' = idleCalls]_vars

C11_Witness ==
    /\ tasksQueue # <<>>
    /\ idleCalls = 0
    /\ \E id \in Ids : Fallback(id) /\ Over(id) /\ future[id] # Pending

(***************************************************************************)
(* C12. ScheduleTask calls AEGP_CauseIdleRoutinesToBeCalled only after it  *)
(* released queueMutex: no thread holds the mutex while its call to the    *)
(* host is in progress.  The lock_guard of line 74 lives to line 80, so    *)
(* the call of line 78 is made with the mutex held.                        *)
(***************************************************************************)
C12_IdleCallOutsideLock ==
    \A th \in Threads : pc[th] = "s_idle" => queueMutex # th

\* Closure id went through ScheduleTask (void or ReturnType overload).
Scheduled(id) == tasks[id].kind \in {"void", "result"}

(***************************************************************************)
(* C13. A closure given to ScheduleTask (either overload, callIdle true or *)
(* false) runs only inside ExecuteTask on the main thread, after it was    *)
(* popped: its body never runs on the thread that scheduled it inside the  *)
(* ScheduleTask call.                                                      *)
(***************************************************************************)
C13_RunsOnlyInExecuteTask ==
    \A id \in Ids :
       Scheduled(id) =>
          \A th \in Threads :
             run[th] = id
                => /\ th = Main
                   /\ id \in Range(dequeued)
                   /\ \A p \in Producers : cur[p] # id

C13_Witness ==
    \E id \in Ids :
       /\ Scheduled(id)
       /\ tasks[id].callIdle
       /\ tasks[id].owner \in Producers
       /\ run[Main] = id
       /\ idleCalls > 0

\* Threads on which a closure body is executing.
Running == {th \in Threads : run[th] # 0}

(***************************************************************************)
(* C14. No closure runs concurrently with another closure or with itself:  *)
(* at most one closure body is executing in every reachable state.         *)
(* Without TK_INTERNAL ScheduleOrExecute runs its function on the calling  *)
(* thread, next to other callers and next to ExecuteTask.                  *)
(***************************************************************************)
C14_AtMostOneBody == Cardinality(Running) <= 1

(***************************************************************************)
(* C14, amended.  Closures taken from the queue never run concurrently     *)
(* with one another or with themselves: at most one thread is executing    *)
(* the body of a queued closure, and no closure is popped twice.           *)
(***************************************************************************)
C14_AtMostOneQueuedBody ==
    /\ Cardinality({th \in Running : Queued(run[th])}) <= 1
    /\ \A id \in Ids : Count(dequeued, id) <= 1

C14_Witness ==
    /\ run[Main] # 0
    /\ Queued(run[Main])
    /\ \E p \in Producers : run[p] # 0 /\ ~Queued(run[p])

\* Closures whose ScheduleTask call got past push with callIdle set.
Notified == {id \in Ids : Pushed(id) /\ tasks[id].callIdle}

(***************************************************************************)
(* C15. The host is asked for idle routines exactly once per ScheduleTask  *)
(* call with callIdle true and not at all with callIdle false: the count   *)
(* of host calls is the number of closures pushed with callIdle true, so   *)
(* no call comes from ExecuteTask; a closure pushed with callIdle false    *)
(* stays in the queue until an ExecuteTask pops it, and the steps of the   *)
(* main thread outside ScheduleTask never change the count.                *)
(***************************************************************************)
C15_IdleCallPerSchedule ==
    /\ [](/\ idleCalls = Cardinality(Notified)
          /\ \A id \in Ids :
                (Pushed(id) /\ ~tasks[id].callIdle /\ id \notin Range(dequeued))
                   => Count(tasksQueue, id) = 1)
    /\ [][(pc[Main] # "s_lock" /\ pc'[Main] # pc[Main])
             => idleCalls' = idleCalls]_vars

C15_Witness ==
    /\ idleCalls = 1
    /\ pc[Main] = "returned"
    /\ \E a, b \in Ids :
          /\ tasks[a].callIdle /\ a \in Range(pumpRan)
          /\ ~tasks[b].callIdle /\ b \in Range(tasksQueue)
          /\ tasks[b].kind = "result" /\ pc[tasks[b].owner] = "idle"

(***************************************************************************)
(* C16. Life of a queued closure: ExecuteTask removes it from the queue    *)
(* before its body starts, so it is not in the queue while it runs; once   *)
(* popped it never is in the queue again; and it is popped, hence run, at  *)
(* most once, whether its body returns or throws.                          *)
(***************************************************************************)
C16_TaskLifeCycle ==
    /\ [](\A id \in Ids :
            /\ (\E th \in Threads : run[th] = id) => id \notin Range(tasksQueue)
            /\ id \in Range(dequeued) => id \notin Range(tasksQueue)
            /\ Count(dequeued, id) <= 1
            /\ Count(tasksQueue, id) <= 1)
    /\ [][\A id \in Ids :
            /\ id \in Range(dequeued) => id \in Range(dequeued')
            /\ (Executed(id) /\ Queued(id)) => \A th \in Threads : run'[th] # id]_vars

C16_Witness ==
    /\ tasksQueue # <<>>
    /\ \E a, b \in Ids :
          /\ Executed(a) /\ tasks[a].body.op = "raise"
          /\ Executed(b) /\ tasks[b].body.op = "ret"

\* What the promise of closure id must hold once its wrapper has run; a
\* body that calls ScheduleTask ends, if at all, with the exception of the
\* lock of line 74.
Outcome(id) ==
    CASE tasks[id].body.op = "ret" -> Returned(tasks[id].body.val)
      [] tasks[id].body.op = "raise" -> Threw(tasks[id].body.err)
      [] tasks[id].body.op = "sched" -> Threw(SystemError)

(***************************************************************************)
(* C17. The promise of ScheduleTask<ReturnType> is set exactly once, with  *)
(* the value of the closure or with its exception and never both; it is    *)
(* not set before ExecuteTask has popped and run the wrapper, so the       *)
(* future is ready only if the closure has run, and a set promise is       *)
(* never set again.                                                        *)
(***************************************************************************)
C17_PromiseSetOnce ==
    /\ [](\A id \in Ids :
            tasks[id].kind = "result" =>
               /\ future[id] \in {Pending, Outcome(id)}
               /\ future[id] # Pending => id \in Range(dequeued)
               /\ Executed(id) => future[id] = Outcome(id))
    /\ [][\A id \in Ids :
            (tasks[id].kind = "result" /\ future[id] # Pending)
               => future'[id] = future[id]]_vars

C17_Witness ==
    \E id \in Ids :
       /\ tasks[id].kind = "result"
       /\ tasks[id].body.op = "raise"
       /\ Executed(id)
       /\ future[id].tag = "exception"
       /\ retrieved[id] = Pending

\* ExecuteTask ran queued closure id and its body ended with an exception.
Failed(id) == Queued(id) /\ Executed(id) /\ tasks[id].body.op = "raise"

(***************************************************************************)
(* C18. No retry, and the scheduler stays usable after a failure: once a   *)
(* closure has thrown in ExecuteTask it is out of the queue and never in   *)
(* it again, it was popped once, the main thread does not keep queueMutex  *)
(* after the call, the call left the rest of the queue in order, and the   *)
(* next ExecuteTask pops and runs the closure then at the front.           *)
(***************************************************************************)
C18_UsableAfterFailure ==
    /\ [](\A id \in Ids :
            Failed(id) =>
               /\ id \notin Range(tasksQueue)
               /\ Count(dequeued, id) = 1
               /\ pc[Main] \in {"returned", "idle"} => queueMutex # Main
               /\ (pc[Main] = "returned" /\ pumpRan = <<id>>)
                     => pumpEnd = Tail(pumpQ))
    /\ [][((\E id \in Ids : Failed(id)) /\ pc[Main] = "idle" /\ pc'[Main] = "run")
             => /\ tasksQueue # <<>>
                /\ run'[Main] = Head(tasksQueue)
                /\ tasksQueue' = Tail(tasksQueue)]_vars

C18_Witness ==
    /\ Len(dequeued) >= 2
    /\ Failed(dequeued[1])
    /\ run[Main] = dequeued[2]
    /\ tasksQueue # <<>>

\* The future of closure id was given out, its closure is pushed, and it
\* is not set yet; and the future is set.
Awaited(id) == IF id \in Ids THEN Pushed(id) /\ future[id] = Pending ELSE FALSE
Ready(id) ==
    IF id \in Ids THEN future[id].tag \in {"value", "exception"} ELSE FALSE

(***************************************************************************)
(* C19. Eventual execution: with a host that keeps calling ExecuteTask and *)
(* bodies that end, every closure in the queue is eventually executed and  *)
(* every future of ScheduleTask<ReturnType> whose closure was pushed is    *)
(* eventually ready.  A body that calls ScheduleTask locks queueMutex      *)
(* again on the main thread (C1); a build where that lock never returns    *)
(* stops ExecuteTask for good, with the closures behind it in the queue.   *)
(***************************************************************************)
C19_EventuallyExecuted ==
    \A id \in 1..MaxLive :
       /\ (id \in Range(tasksQueue)) ~> Executed(id)
       /\ Awaited(id) ~> Ready(id)

\* ScheduleOrExecute of a build with TK_INTERNAL made closure id.
DeferredTask(id) == tkInternal /\ tasks[id].kind = "packaged"

(***************************************************************************)
(* C20. With TK_INTERNAL, ScheduleOrExecute pushes exactly one wrapper     *)
(* through ScheduleTask with callIdle true and returns without running     *)
(* the function: the function runs on no producer, the wrapper is in the   *)
(* queue or popped exactly once after the push, every such push came with  *)
(* a host idle request, the future is pending until ExecuteTask has run    *)
(* the wrapper and then holds the function's value or exception, and no    *)
(* exception leaves the ExecuteTask that ran the wrapper.                  *)
(***************************************************************************)
C20_DeferredScheduleOrExecute ==
    /\ \A id \in Ids :
          DeferredTask(id) =>
             /\ \A p \in Producers : run[p] # id
             /\ IF Handed(id)
                THEN Count(tasksQueue, id) + Count(dequeued, id) = 1
                ELSE ~Pushed(id)
             /\ future[id] = IF Executed(id) THEN Outcome(id) ELSE Pending
             /\ (pc[Main] \in {"exit", "returned"} /\ pumpRan = <<id>>)
                   => escaped[Main] = NoError
    /\ idleCalls >= Cardinality({id \in Ids : DeferredTask(id) /\ Pushed(id)})

C20_Witness ==
    /\ pc[Main] = "returned"
    /\ \E id \in Ids :
          /\ DeferredTask(id)
          /\ tasks[id].body.op = "raise"
          /\ pumpRan = <<id>>
          /\ future[id].tag = "exception"
          /\ pc[tasks[id].owner] = "idle"

=============================================================================
